---- MODULE Spec2Model ----
(***************************************************************************)
(* A model of the agent registration scripts of PIN-AI/Subnet-Agents:      *)
(* src/agentN/agentN_reg.py (N = 1..7) and src/reg_scripts/agentN_reg.py   *)
(* (N = 1..6).  Each script defines a task Handler and a BiddingStrategy   *)
(* and a coroutine main() that builds a configuration, registers the       *)
(* components, (in src/agentN) submits one execution report through a      *)
(* ValidatorClient, starts the agent and then waits for Ctrl+C.            *)
(*                                                                         *)
(* The subnet_sdk package and the domain modules (agent1 .. agent7) are    *)
(* imported libraries: a call into them is modelled by its outcome (it     *)
(* returns, or it raises), chosen nondeterministically.                    *)
(***************************************************************************)
EXTENDS Integers, Sequences, FiniteSets, TLC

\* How many tasks the running agent is handed in one run of a script.
MaxTasks == 2

(***************************************************************************)
(* The thirteen scripts, named by their path under src/.                   *)
(***************************************************************************)
AgentScripts ==
    { "agent1/agent1_reg.py", "agent2/agent2_reg.py", "agent3/agent3_reg.py",
      "agent4/agent4_reg.py", "agent5/agent5_reg.py", "agent6/agent6_reg.py",
      "agent7/agent7_reg.py" }

RegScripts ==
    { "reg_scripts/agent1_reg.py", "reg_scripts/agent2_reg.py",
      "reg_scripts/agent3_reg.py", "reg_scripts/agent4_reg.py",
      "reg_scripts/agent5_reg.py", "reg_scripts/agent6_reg.py" }

Scripts == AgentScripts \cup RegScripts

(***************************************************************************)
(* Python exceptions.  An exception value is its class and its args tuple. *)
(* "except Exception" catches every class but the ones that derive from    *)
(* BaseException directly (SystemExit, KeyboardInterrupt, CancelledError). *)
(***************************************************************************)
NoException == [cls |-> "None", args |-> << >>]

BaseOnlyClasses == {"SystemExit", "KeyboardInterrupt", "CancelledError"}

IsException(e) == e.cls \notin (BaseOnlyClasses \cup {"None"})

\* str(e): the empty string for an exception built with no argument, the
\* argument's text for an exception built with one.
str(e) == IF Len(e.args) = 0 THEN "" ELSE e.args[1]

\* What the domain call made by a handler can raise: an exception built with
\* no argument (raise ValueError()) or with a message.
Messages == {"bad"}

DomainFaults ==
    [cls : {"ValueError", "RuntimeError"},
     args : {<< >>} \cup {<<m>> : m \in Messages}]

UnicodeDecodeError ==
    [cls |-> "UnicodeDecodeError", args |-> <<"invalid start byte">>]

JSONDecodeError == [cls |-> "JSONDecodeError", args |-> <<"Expecting value">>]

AttributeError ==
    [cls |-> "AttributeError", args |-> <<"object has no attribute 'get'">>]

TypeError ==
    [cls |-> "TypeError", args |-> <<"Object is not JSON serializable">>]

(***************************************************************************)
(* Task payloads (task.data), by what decoding and parsing make of them.   *)
(***************************************************************************)
Payloads == {"undecodable", "plain", "json_list", "json_object"}

\* The outcome of the domain call in the try block.
DomainOutcomes ==
    {[kind |-> "return", exc |-> NoException]}
        \cup {[kind |-> "raise", exc |-> e] : e \in DomainFaults}

\* The outcome of serialising the domain result: building the serialisable
\* value raises, json.dumps / encode raises, or neither.
SerialOutcomes == {"ok", "build_raises", "dumps_raises"}

(***************************************************************************)
(* Result, as the handlers construct it.  error is left unset on success.  *)
(***************************************************************************)
EmptyBytes == ""

Unset == "<unset>"

Result(data, success, error) ==
    [data |-> data, success |-> success, error |-> error]

NoResult == Result("<none>", FALSE, Unset)

Returned(r) == [kind |-> "return", result |-> r, exc |-> NoException]

Raised(e) == [kind |-> "raise", result |-> NoResult, exc |-> e]

\* return Result(data=..., success=True)
SuccessResult(data) == Result(data, TRUE, Unset)

\* A slip a handler could make: the failure branch drops the error text.
ExceptResultNoError(e) == Result(EmptyBytes, FALSE, Unset)

\* except Exception as e: return Result(data=b"", success=False, error=str(e))
ExceptResult(e) == Result(EmptyBytes, FALSE, str(e))

(***************************************************************************)
(* The shape of each script's execute.                                     *)
(***************************************************************************)
\* query = task.data.decode() stands before the try statement.
DecodesOutsideTry(s) ==
    s \in { "agent4/agent4_reg.py", "agent5/agent5_reg.py",
            "agent6/agent6_reg.py", "reg_scripts/agent2_reg.py",
            "reg_scripts/agent4_reg.py", "reg_scripts/agent5_reg.py",
            "reg_scripts/agent6_reg.py" }

\* query = task.data.decode() is the first statement of the try block.
DecodesInsideTry(s) == s \in {"agent2/agent2_reg.py", "agent7/agent7_reg.py"}

\* data = json.loads(query); data.get(...)
ParsesJson(s) == s = "agent7/agent7_reg.py"

\* A slip a handler could make: the serialisation is not wrapped in a try of
\* its own.
InnerTryAroundSerialisationMissing(s) == FALSE

\* The whole serialisation sits in an inner try whose except substitutes a
\* placeholder document.
InnerTryAroundSerialisation(s) ==
    s \in {"agent5/agent5_reg.py", "reg_scripts/agent5_reg.py"}

\* Only the building of the serialisable list sits in an inner try; its except
\* builds the list another way, and json.dumps follows outside it.
InnerTryAroundBuild(s) == s = "agent6/agent6_reg.py"

\* The statements of the try block, up to its return or to what it raises.
TryBody(s, payload, dom, ser) ==
    IF DecodesInsideTry(s) /\ payload = "undecodable"
    THEN Raised(UnicodeDecodeError)
    ELSE IF ParsesJson(s) /\ payload = "plain"
    THEN Raised(JSONDecodeError)
    ELSE IF ParsesJson(s) /\ payload = "json_list"
    THEN Raised(AttributeError)
    ELSE IF dom.kind = "raise"
    THEN Raised(dom.exc)
    ELSE IF ser = "ok"
    THEN Returned(SuccessResult("serialised"))
    ELSE IF InnerTryAroundSerialisation(s)
    THEN Returned(SuccessResult("placeholder"))
    ELSE IF InnerTryAroundBuild(s) /\ ser = "build_raises"
    THEN Returned(SuccessResult("fallback"))
    ELSE Raised(TypeError)

\* Handler.execute(task): what the coroutine returns, or raises to its caller.
execute(s, payload, dom, ser) ==
    IF DecodesOutsideTry(s) /\ payload = "undecodable"
    THEN Raised(UnicodeDecodeError)
    ELSE LET body == TryBody(s, payload, dom, ser)
         IN  IF body.kind = "raise" /\ IsException(body.exc)
             THEN Returned(ExceptResult(body.exc))
             ELSE body

NoExecution ==
    [payload |-> "plain", dom |-> [kind |-> "return", exc |-> NoException],
     ser |-> "ok", out |-> Returned(NoResult)]

(***************************************************************************)
(* The process environment read through os.getenv.                         *)
(***************************************************************************)
Absent == "<absent>"

None == "<None>"

EnvNames ==
    { "PRIVATE_KEY", "SERPAPI_KEY", "OPENAI_API", "POLYMARKET_API_KEY",
      "REDDIT_ID", "REDDIT_SECRET" }

EnvValues == {Absent, "", "value"}

\* os.getenv(name, default); os.getenv(name) is getenv(e, name, None).
getenv(e, name, default) == IF e[name] = Absent THEN default ELSE e[name]

\* bool(v) of a string or None.
Truthy(v) == v \notin {None, ""}

\* The API keys a script reads at import time, and the default it gives each.
ApiKeyNames(s) ==
    CASE s \in {"agent4/agent4_reg.py", "reg_scripts/agent4_reg.py"}
            -> {"SERPAPI_KEY"}
      [] s \in {"agent5/agent5_reg.py", "reg_scripts/agent5_reg.py"}
            -> {"OPENAI_API"}
      [] s \in {"agent6/agent6_reg.py", "reg_scripts/agent6_reg.py"}
            -> {"POLYMARKET_API_KEY", "REDDIT_ID", "REDDIT_SECRET"}
      [] OTHER -> {}

ApiKeyDefault(s) ==
    CASE s \in {"agent4/agent4_reg.py", "reg_scripts/agent4_reg.py"}
            -> "your_fallback_key"
      [] s = "agent6/agent6_reg.py" -> "a"
      [] OTHER -> None

\* if not SERPAPI_KEY / if not OPENAI_API_KEY / if not all([...]): return
ApiKeysPresent(s, e) ==
    \A n \in ApiKeyNames(s) : Truthy(getenv(e, n, ApiKeyDefault(s)))

\* The scripts that give PRIVATE_KEY a default value.
HasPrivateKeyDefault(s) ==
    s \in { "agent1/agent1_reg.py", "agent5/agent5_reg.py",
            "agent6/agent6_reg.py", "agent7/agent7_reg.py" }

\* os.getenv("PRIVATE_KEY"[, "1803db14..."])
PrivateKey(s, e) ==
    getenv(e, "PRIVATE_KEY", IF HasPrivateKeyDefault(s) THEN "1803db14" ELSE None)

(***************************************************************************)
(* The execution report main() builds and the client operation it calls.   *)
(***************************************************************************)
IntentId(s) ==
    CASE s = "agent1/agent1_reg.py" -> "intent-123"
      [] s = "agent2/agent2_reg.py" -> "intent-xyz"
      [] s = "agent3/agent3_reg.py" -> "intent-tax-001"
      [] s = "agent4/agent4_reg.py" -> "intent-meal-001"
      [] s = "agent5/agent5_reg.py" -> "intent-stock-001"
      [] s = "agent6/agent6_reg.py" -> "intent-polymarket-001"
      [] s = "agent7/agent7_reg.py" -> "intent-hyperliquid-001"
      [] OTHER -> "<none>"

\* .with_agent_id(...)
ConfigAgentId(s) ==
    CASE s = "agent2/agent2_reg.py" -> "corporate-analysis-agent-001"
      [] s = "agent3/agent3_reg.py" -> "tax-optimizer-agent-001"
      [] s = "agent4/agent4_reg.py" -> "food-planner-agent-001"
      [] s = "agent5/agent5_reg.py" -> "stock-analysis-agent-001"
      [] s = "agent6/agent6_reg.py" -> "polymarket-reddit-agent-001"
      [] s = "agent7/agent7_reg.py" -> "hyperliquid-agent-007"
      [] OTHER -> "financial-news-agent-001"

\* agent_id=... of the report
ReportAgentId(s) ==
    IF s = "agent1/agent1_reg.py" THEN "agent-1" ELSE ConfigAgentId(s)

\* execution_report_pb2.ExecutionReport(assignment_id="assignment-1", ...)
SampleReport(s) ==
    [assignment_id |-> "assignment-1", intent_id |-> IntentId(s),
     agent_id |-> ReportAgentId(s), status |-> "SUCCESS"]

\* The ValidatorClient method main() awaits.
SubmitOperation(s) ==
    IF s \in {"agent2/agent2_reg.py", "agent3/agent3_reg.py", "agent4/agent4_reg.py"}
    THEN "submit_execution_report_batch"
    ELSE "submit_execution_report"

\* What main() passes to it: the report itself, or a batch request around it.
SubmitArgument(s) ==
    IF s \in {"agent3/agent3_reg.py", "agent4/agent4_reg.py"}
    THEN "ExecutionReportBatchRequest"
    ELSE "ExecutionReport"

TransportError == [cls |-> "TransportError", args |-> <<"connection refused">>]

ConfigurationError ==
    [cls |-> "ConfigurationError", args |-> <<"private key is required">>]

CancelledError == [cls |-> "CancelledError", args |-> << >>]

(***************************************************************************)
(* main(): its statements in program order.                                *)
(***************************************************************************)
\* A slip main() could make: the report is submitted once the agent runs.
MainStatementsReportAfterStart(s) ==
    IF s \in AgentScripts
    THEN << "main", "validator_client", "build_config", "sdk",
            "register_handler", "register_bidding_strategy",
            "register_callbacks", "start", "submit", "close", "wait" >>
    ELSE << "main", "build_config", "sdk", "register_handler",
            "register_bidding_strategy", "start", "wait" >>

\* A slip main() could make: the agent is started before the bidding
\* strategy is registered.
MainStatementsStartBeforeStrategy(s) ==
    IF s \in AgentScripts
    THEN << "main", "validator_client", "build_config", "sdk",
            "register_handler", "submit", "close", "start",
            "register_bidding_strategy", "register_callbacks", "wait" >>
    ELSE << "main", "build_config", "sdk", "register_handler", "start",
            "register_bidding_strategy", "wait" >>

\* A slip main() could make: the client is closed only after the agent was
\* started.
MainStatementsCloseAfterStart(s) ==
    IF s \in AgentScripts
    THEN << "main", "validator_client", "build_config", "sdk",
            "register_handler", "register_bidding_strategy",
            "register_callbacks", "submit", "start", "close", "wait" >>
    ELSE << "main", "build_config", "sdk", "register_handler",
            "register_bidding_strategy", "start", "wait" >>

MainStatements(s) ==
    IF s \in AgentScripts
    THEN << "main", "validator_client", "build_config", "sdk",
            "register_handler", "register_bidding_strategy",
            "register_callbacks", "submit", "close", "start", "wait" >>
    ELSE << "main", "build_config", "sdk", "register_handler",
            "register_bidding_strategy", "start", "wait" >>

\* The statement that follows statement p when p ends normally.
PcAfter(s, p) ==
    LET st == MainStatements(s)
        i == CHOOSE k \in 1..Len(st) : st[k] = p
    IN  st[i + 1]

(***************************************************************************)
(* Ctrl+C while main() is suspended in "await asyncio.Event().wait()".     *)
(* asyncio.run either cancels the main task from its own SIGINT handler,   *)
(* or lets KeyboardInterrupt leave the event loop and cancels the main     *)
(* task while it shuts the loop down.  Either way the coroutine is resumed *)
(* with CancelledError.                                                    *)
(***************************************************************************)
SigintMechanisms == {"cancel_main_task", "raise_in_event_loop"}

DeliveredAtAwait(mech) ==
    CASE mech = "cancel_main_task" -> CancelledError
      [] mech = "raise_in_event_loop" -> CancelledError

(***************************************************************************)
(* The bidding strategies.  Every script registers one strategy class;     *)
(* its two methods read the intent and nothing else: no strategy keeps a   *)
(* field that a call writes.                                               *)
(***************************************************************************)

\* The intent type each script passes to ConfigBuilder.with_intent_types.
ConfiguredIntentType(s) ==
    CASE s \in {"agent1/agent1_reg.py", "reg_scripts/agent1_reg.py"} -> "news-analyser"
      [] s \in {"agent2/agent2_reg.py", "reg_scripts/agent2_reg.py"} -> "corporate-analysis"
      [] s \in {"agent3/agent3_reg.py", "reg_scripts/agent3_reg.py"} -> "tax-optimization"
      [] s \in {"agent4/agent4_reg.py", "reg_scripts/agent4_reg.py"} -> "meal-planning"
      [] s \in {"agent5/agent5_reg.py", "reg_scripts/agent5_reg.py"} -> "stock-analysis"
      [] s \in {"agent6/agent6_reg.py", "reg_scripts/agent6_reg.py"} -> "polymarket-analysis"
      [] s = "agent7/agent7_reg.py" -> "hyperliquid-trading"

\* The scripts whose strategy class is SimpleBiddingStrategy.
SimpleBiddingStrategyScripts == RegScripts \ {"reg_scripts/agent1_reg.py"}

\* The scripts whose should_bid is "return True".
BidsOnEveryIntent(s) ==
    s \in {"agent1/agent1_reg.py", "agent5/agent5_reg.py", "agent7/agent7_reg.py",
           "reg_scripts/agent1_reg.py"}

\* The literal that should_bid compares intent.type with.
ShouldBidLiteral(s) ==
    IF s \in SimpleBiddingStrategyScripts
    THEN "corporate-analysis"
    ELSE ConfiguredIntentType(s)

\* The intents an agent may be shown: its own type, the type the
\* SimpleBiddingStrategy names, and a type no script serves.
IntentIds == {"intent-a", "intent-b"}
IntentMetadata == {"none", "urgent"}
IntentTypesShown(s) == {ConfiguredIntentType(s), "corporate-analysis", "unserved-type"}
Intents(s) == [id : IntentIds, type : IntentTypesShown(s), metadata : IntentMetadata]

should_bid(s, intent) ==
    IF BidsOnEveryIntent(s) THEN TRUE ELSE intent.type = ShouldBidLiteral(s)

\* The metadata argument of the Bid, where calculate_bid passes one.
BidMetadata(s) ==
    CASE s = "agent1/agent1_reg.py" -> "capabilities: news-analyser, financial-impact-predictor"
      [] s = "agent5/agent5_reg.py" -> "capabilities: stock-analysis,price-prediction"
      [] s = "agent7/agent7_reg.py" -> "capabilities: hyperliquid-trading,online-ml-signals"
      [] OTHER -> Unset

Bid(price, currency, metadata) ==
    [price |-> price, currency |-> currency, metadata |-> metadata]

calculate_bid_100(s, intent) == Bid(100, "PIN", BidMetadata(s))

calculate_bid(s, intent) == Bid(10, "PIN", BidMetadata(s))

\* Before the strategy was asked about any intent.
NoIntent == [id |-> "<none>", type |-> "<none>", metadata |-> "none"]

NoBid == Bid(0, "<none>", Unset)

NoEvaluation == [intent |-> NoIntent, should_bid |-> FALSE, bid |-> NoBid]

(***************************************************************************)
(* A per-task deadline.  A coroutine is cancelled cooperatively: the       *)
(* request is delivered as CancelledError at the next await the coroutine  *)
(* is suspended in, and a coroutine that never awaits runs to its return.  *)
(***************************************************************************)

\* The statements of execute that touch the handler's fields, in order.
\* HyperliquidHandler keeps the trading system in self.system; no other
\* handler has a field that execute writes.
ExecuteStatements(s) ==
    IF s = "agent7/agent7_reg.py"
    THEN << "create_system", "warm_start", "backtest", "return" >>
    ELSE << "domain_call", "return" >>

\* A slip a handler could make: the coroutine awaits once the system is
\* created (or during the domain call).
SuspensionPointsAfterFirstStatement(s) == {"create_system", "domain_call"}

\* The statements of execute at which the coroutine awaits: the handlers
\* call their domain logic synchronously, so there are none.
SuspensionPoints(s) == {}

\* The event loop runs a coroutine from where it stands to its next await or
\* to its return: the last statement of the segment that starts at i.
SegmentEnd(s, i) ==
    LET st == ExecuteStatements(s)
    IN  CHOOSE j \in i..Len(st) :
            /\ st[j] \in SuspensionPoints(s) \/ j = Len(st)
            /\ \A k \in i..(j - 1) : st[k] \notin SuspensionPoints(s)

\* The tasks the running agent may hand to the handler at the same time.
MaxInFlight == 2
TaskIds == 1..MaxInFlight

\* self.system = None
NoSystem == 0

\* One statement of execute, run for task t: self.system = ...(symbols) makes
\* the system of task t; warm_start and run_backtest read self.system.
Statement(name, t, fields) ==
    CASE name = "create_system" -> [fields EXCEPT !.system = t]
      [] name \in {"warm_start", "backtest"} ->
            [fields EXCEPT !.saw = Append(fields.saw, fields.system)]
      [] OTHER -> fields

RECURSIVE Statements(_, _, _, _, _)
Statements(st, i, j, t, fields) ==
    IF i > j
    THEN fields
    ELSE Statements(st, i + 1, j, t, Statement(st[i], t, fields))

\* Whether a cancellation requested at the deadline reaches the invocation
\* before it has run to completion.
CancelDelivered(s, overrun) == overrun /\ SuspensionPoints(s) # {}

NoDeadline == [overrun |-> FALSE, interrupted |-> FALSE]

(***************************************************************************)
(* The report's timestamp: int(time.time()).  time.time() reads the clock  *)
(* as whole seconds and a fraction; int() drops the fraction.              *)
(***************************************************************************)
TicksPerSecond == 2

time(c) == [seconds |-> c \div TicksPerSecond, fraction |-> c % TicksPerSecond]

\* A clock that does not move between the runs of the script.
int_frozen(x) == 0

int(x) == x.seconds

\* How many times the script is run, and how far the clock may move between
\* two runs.
MaxRuns == 2
MaxGap == 2

\* The ExecutionReport of a submission call, all fields.
SubmittedReport(c) ==
    [assignment_id |-> c.report.assignment_id,
     intent_id |-> c.report.intent_id,
     agent_id |-> c.report.agent_id,
     status |-> c.report.status,
     timestamp |-> c.timestamp]

VARIABLES
    script,     \* the script that is run
    env,        \* the process environment
    pc,         \* the statement of main() that runs next; "exit" when it ended
    client,     \* the ValidatorClient: "none", "open" or "closed"
    registered, \* the components registered with the SDK object
    agent,      \* the SDK object: "none", "constructed", "running", "stopped"
    calls,      \* the report submissions made, in order
    pending,    \* the exception that is propagating in main(), or NoException
    exitCause,  \* the exception that left main(), or NoException
    sigint,     \* whether Ctrl+C was delivered while main() was waiting
    stopCalls,  \* how many times agent.stop() was called
    tasksDone,  \* how many execute calls have ended
    lastExec,   \* the last execute call: its inputs and its outcome
    lastBid,    \* the last intent shown to the strategy, and its two answers
    lastDeadline, \* the last execute call: whether it ran past the per-task
                \* deadline, and whether it was interrupted there
    position,   \* per task in flight: how many statements of execute have run
    system,     \* the handler's field self.system: the task that made it
    sawSystem,  \* per task in flight: the systems it read from self.system
    config,     \* the Config object: "none" or "built"
    startCalls, \* how many times agent.start() was called
    registeredAtStart, \* the components registered when start() was called
    closeCalls, \* how many times validator_client.close() was called
    clock,      \* what time.time() reads, in ticks
    run,        \* how many times the script has been started
    earlier     \* the reports that earlier runs of the script submitted

vars ==
    << script, env, pc, client, registered, agent, calls, pending, exitCause,
       sigint, stopCalls, tasksDone, lastExec, lastBid, lastDeadline,
       position, system, sawSystem, config,
       startCalls,
       registeredAtStart, closeCalls, clock, run, earlier >>

\* What the running agent's handler and strategy calls change.
\* The handler invocations in flight on the event loop.
loopVars == << position, system, sawSystem >>

workVars == << tasksDone, lastExec, lastBid, lastDeadline, loopVars >>

\* What only a new run of the script changes.
runVars == << clock, run, earlier >>

mainVars ==
    << pc, client, registered, agent, calls, pending, exitCause, sigint,
       stopCalls, config, startCalls, registeredAtStart, closeCalls, runVars >>

Init ==
    /\ script \in Scripts
    /\ env \in [EnvNames -> EnvValues]
    /\ \A n \in EnvNames \ (ApiKeyNames(script) \cup {"PRIVATE_KEY"}) :
          env[n] = Absent
    /\ pc = "main"
    /\ client = "none"
    /\ registered = {}
    /\ agent = "none"
    /\ calls = << >>
    /\ pending = NoException
    /\ exitCause = NoException
    /\ sigint = FALSE
    /\ stopCalls = 0
    /\ tasksDone = 0
    /\ lastExec = NoExecution
    /\ lastBid = NoEvaluation
    /\ lastDeadline = NoDeadline
    /\ position = [t \in TaskIds |-> 0]
    /\ system = NoSystem
    /\ sawSystem = [t \in TaskIds |-> << >>]
    /\ config = "none"
    /\ startCalls = 0
    /\ registeredAtStart = {}
    /\ closeCalls = 0
    /\ clock = 0
    /\ run = 1
    /\ earlier = {}

\* An exception leaves main(): asyncio.run(main()) re-raises it.
Exit(e) ==
    /\ pc' = "exit"
    /\ exitCause' = e
    /\ pending' = NoException

\* main() up to the API key guard.
EnterMain ==
    /\ pc = "main"
    /\ IF ApiKeysPresent(script, env)
       THEN /\ pc' = PcAfter(script, "main")
            /\ UNCHANGED <<exitCause, pending>>
       ELSE Exit(NoException)
    /\ UNCHANGED <<script, env, client, registered, agent, calls, sigint,
                   stopCalls, workVars, runVars,
                   config, startCalls, registeredAtStart, closeCalls>>

\* signing_config = SigningConfig(...); validator_client = ValidatorClient(...)
CreateValidatorClient ==
    /\ pc = "validator_client"
    /\ client' = "open"
    /\ pc' = PcAfter(script, "validator_client")
    /\ UNCHANGED <<script, env, registered, agent, calls, pending, exitCause,
                   sigint, stopCalls, workVars, runVars,
                   config, startCalls, registeredAtStart, closeCalls>>

\* config = ConfigBuilder()....with_private_key(...).build()
\* With no private key the builder may raise ConfigurationError.
BuildConfig ==
    /\ pc = "build_config"
    /\ \/ /\ pc' = PcAfter(script, "build_config")
          /\ config' = "built"
          /\ UNCHANGED <<exitCause, pending>>
       \/ /\ ~Truthy(PrivateKey(script, env))
          /\ Exit(ConfigurationError)
          /\ UNCHANGED config
    /\ UNCHANGED <<script, env, client, registered, agent, calls, sigint,
                   stopCalls, workVars, runVars,
                   startCalls, registeredAtStart, closeCalls>>

\* agent = SDK(config)
CreateSDK ==
    /\ pc = "sdk"
    /\ agent' = "constructed"
    /\ pc' = PcAfter(script, "sdk")
    /\ UNCHANGED <<script, env, client, registered, calls, pending, exitCause,
                   sigint, stopCalls, workVars, runVars,
                   config, startCalls, registeredAtStart, closeCalls>>

\* agent.register_handler / register_bidding_strategy / register_callbacks
Register ==
    /\ pc \in {"register_handler", "register_bidding_strategy", "register_callbacks"}
    /\ registered' = registered \cup {pc}
    /\ pc' = PcAfter(script, pc)
    /\ UNCHANGED <<script, env, client, agent, calls, pending, exitCause,
                   sigint, stopCalls, workVars, runVars,
                   config, startCalls, registeredAtStart, closeCalls>>

\* try: response = await validator_client.submit_...(report)
SubmitReport ==
    /\ pc = "submit"
    /\ \E outcome \in {"returns", "raises"} :
          /\ calls' = Append(calls,
                [operation |-> SubmitOperation(script),
                 argument |-> SubmitArgument(script),
                 report |-> SampleReport(script),
                 timestamp |-> int(time(clock)),
                 started |-> (agent = "running"),
                 tasksDone |-> tasksDone,
                 client |-> client,
                 outcome |-> outcome])
          /\ pending' = IF outcome = "raises" THEN TransportError ELSE NoException
    /\ pc' = PcAfter(script, "submit")
    /\ UNCHANGED <<script, env, client, registered, agent, exitCause, sigint,
                   stopCalls, workVars, runVars,
                   config, startCalls, registeredAtStart, closeCalls>>

\* finally: await validator_client.close()
CloseClient ==
    /\ pc = "close"
    /\ client' = "closed"
    /\ IF pending = NoException
       THEN /\ pc' = PcAfter(script, "close")
            /\ UNCHANGED <<exitCause, pending>>
       ELSE Exit(pending)
    /\ UNCHANGED <<script, env, registered, agent, calls, sigint, stopCalls,
                   workVars, runVars,
                   config, startCalls, registeredAtStart>>
    /\ closeCalls' = closeCalls + 1

\* await agent.start()
\* With no private key start() raises ConfigurationError, if the builder did
\* not.
Start ==
    /\ pc = "start"
    /\ \/ /\ Truthy(PrivateKey(script, env))
          /\ agent' = "running"
          /\ pc' = PcAfter(script, "start")
          /\ UNCHANGED <<exitCause, pending>>
       \/ /\ ~Truthy(PrivateKey(script, env))
          /\ Exit(ConfigurationError)
          /\ UNCHANGED agent
    /\ UNCHANGED <<script, env, client, registered, calls, sigint, stopCalls,
                   workVars, runVars,
                   config, closeCalls>>
    /\ startCalls' = startCalls + 1
    /\ registeredAtStart' = registered

\* The running agent hands a task to the registered handler.
ExecuteTask ==
    /\ pc = "wait"
    /\ agent = "running"
    /\ tasksDone < MaxTasks
    /\ \E payload \in Payloads, dom \in DomainOutcomes, ser \in SerialOutcomes,
          overrun \in BOOLEAN :
          /\ lastExec' = [payload |-> payload, dom |-> dom, ser |-> ser,
                          out |-> IF CancelDelivered(script, overrun)
                                  THEN Raised(CancelledError)
                                  ELSE execute(script, payload, dom, ser)]
          /\ lastDeadline' = [overrun |-> overrun,
                              interrupted |-> CancelDelivered(script, overrun)]
    /\ tasksDone' = tasksDone + 1
    /\ UNCHANGED <<script, env, lastBid, loopVars>>
    /\ UNCHANGED mainVars

\* The running agent shows an intent to the registered strategy.
EvaluateIntent ==
    /\ pc = "wait"
    /\ agent = "running"
    /\ \E intent \in Intents(script) :
          lastBid' = [intent |-> intent,
                      should_bid |-> should_bid(script, intent),
                      bid |-> calculate_bid(script, intent)]
    /\ UNCHANGED <<script, env, tasksDone, lastExec, lastDeadline, loopVars>>
    /\ UNCHANGED mainVars

\* The event loop runs the execute coroutine of task t from where it stands
\* to its next await or to its return; nothing else runs meanwhile.
RunSegment(t) ==
    /\ pc = "wait"
    /\ agent = "running"
    /\ position[t] < Len(ExecuteStatements(script))
    /\ LET st == ExecuteStatements(script)
           i == position[t] + 1
           j == SegmentEnd(script, i)
           fields == Statements(st, i, j, t,
                        [system |-> system, saw |-> sawSystem[t]])
       IN  /\ position' = [position EXCEPT ![t] = j]
           /\ system' = fields.system
           /\ sawSystem' = [sawSystem EXCEPT ![t] = fields.saw]
    /\ UNCHANGED <<script, env, tasksDone, lastExec, lastBid, lastDeadline>>
    /\ UNCHANGED mainVars

\* Ctrl+C arrives while main() is suspended in await asyncio.Event().wait().
Sigint ==
    /\ pc = "wait"
    /\ \E mech \in SigintMechanisms : pending' = DeliveredAtAwait(mech)
    /\ sigint' = TRUE
    /\ pc' = "wait_except"
    /\ UNCHANGED <<script, env, client, registered, agent, calls, exitCause,
                   stopCalls, workVars, runVars,
                   config, startCalls, registeredAtStart, closeCalls>>

\* except KeyboardInterrupt: await agent.stop()
WaitExcept ==
    /\ pc = "wait_except"
    /\ IF pending.cls = "KeyboardInterrupt"
       THEN /\ agent' = "stopped"
            /\ stopCalls' = stopCalls + 1
            /\ Exit(NoException)
       ELSE /\ Exit(pending)
            /\ UNCHANGED <<agent, stopCalls>>
    /\ UNCHANGED <<script, env, client, registered, calls, sigint, workVars, runVars,
                   config, startCalls, registeredAtStart, closeCalls>>

\* The script has ended and is run again, in the same environment, at the
\* same or a later time.  A new process starts from the initial state; what
\* earlier runs sent to the validator stays sent.
Rerun ==
    /\ pc = "exit"
    /\ run < MaxRuns
    /\ run' = run + 1
    /\ \E gap \in 0..MaxGap : clock' = clock + gap
    /\ earlier' = earlier \cup
          {[report |-> SubmittedReport(calls[i]), builtAt |-> clock] :
              i \in DOMAIN calls}
    /\ pc' = "main"
    /\ client' = "none"
    /\ registered' = {}
    /\ agent' = "none"
    /\ calls' = << >>
    /\ pending' = NoException
    /\ exitCause' = NoException
    /\ sigint' = FALSE
    /\ stopCalls' = 0
    /\ config' = "none"
    /\ startCalls' = 0
    /\ registeredAtStart' = {}
    /\ closeCalls' = 0
    /\ tasksDone' = 0
    /\ lastExec' = NoExecution
    /\ lastBid' = NoEvaluation
    /\ lastDeadline' = NoDeadline
    /\ position' = [t \in TaskIds |-> 0]
    /\ system' = NoSystem
    /\ sawSystem' = [t \in TaskIds |-> << >>]
    /\ UNCHANGED <<script, env>>

Next ==
    \/ EnterMain
    \/ CreateValidatorClient
    \/ BuildConfig
    \/ CreateSDK
    \/ Register
    \/ SubmitReport
    \/ CloseClient
    \/ Start
    \/ ExecuteTask
    \/ EvaluateIntent
    \/ Sigint
    \/ WaitExcept

Spec == Init /\ [][Next]_vars

\* The script run again and again; what the running agent does with tasks
\* and intents touches nothing main() reads and is left out.
NextRuns ==
    \/ EnterMain
    \/ CreateValidatorClient
    \/ BuildConfig
    \/ CreateSDK
    \/ Register
    \/ SubmitReport
    \/ CloseClient
    \/ Start
    \/ Sigint
    \/ WaitExcept
    \/ Rerun

SpecRuns == Init /\ [][NextRuns]_vars

\* The event loop of the running agent: the execute coroutines of the tasks
\* in flight and the strategy calls, each step one uninterrupted segment.
NextLoop ==
    \/ EnterMain
    \/ CreateValidatorClient
    \/ BuildConfig
    \/ CreateSDK
    \/ Register
    \/ SubmitReport
    \/ CloseClient
    \/ Start
    \/ \E t \in TaskIds : RunSegment(t)
    \/ EvaluateIntent
    \/ Sigint
    \/ WaitExcept

SpecLoop == Init /\ [][NextLoop]_vars

(***************************************************************************)
(* Properties of Handler.execute.                                          *)
(***************************************************************************)
\* The task's payload got as far as the domain call of the try block: it was
\* decoded by every decode the script makes and parsed by every parse.
DomainCallReached ==
    /\ (DecodesOutsideTry(script) \/ DecodesInsideTry(script))
          => lastExec.payload # "undecodable"
    /\ ParsesJson(script) => lastExec.payload = "json_object"

\* C1: every execute call ends by returning a Result; no exception leaves
\* execute, whatever the payload and whatever the domain logic raises.
C1_ExecuteYieldsResult == tasksDone > 0 => lastExec.out.kind = "return"

\* C3: a Result with success=false carries a non-empty error string, whatever
\* exception the handler caught.
C3_FailureCarriesError ==
    (tasksDone > 0 /\ lastExec.out.kind = "return" /\ ~lastExec.out.result.success)
        => lastExec.out.result.error \notin {"", Unset}

\* C4: when the domain call of the try block raises an exception (a class that
\* "except Exception" catches) with message m, execute returns a Result with
\* success=false, data b"" and error m; and a Result with success=true carries
\* no error.
C4_DomainFaultYieldsFailure ==
    tasksDone > 0 =>
        /\ \A m \in Messages :
              ( /\ DomainCallReached
                /\ lastExec.dom.kind = "raise"
                /\ IsException(lastExec.dom.exc)
                /\ lastExec.dom.exc.args = <<m>> )
              => /\ lastExec.out.kind = "return"
                 /\ lastExec.out.result.success = FALSE
                 /\ lastExec.out.result.data = EmptyBytes
                 /\ lastExec.out.result.error = m
        /\ (lastExec.out.kind = "return" /\ lastExec.out.result.success)
              => lastExec.out.result.error = Unset

\* C4's case: the domain call raised ValueError("bad") and execute returned
\* the failure Result that carries "bad".
C4_Witness ==
    /\ tasksDone > 0
    /\ DomainCallReached
    /\ lastExec.dom = [kind |-> "raise",
                       exc |-> [cls |-> "ValueError", args |-> <<"bad">>]]
    /\ lastExec.out = Returned(Result(EmptyBytes, FALSE, "bad"))

(***************************************************************************)
(* Properties of main().                                                   *)
(***************************************************************************)
\* C5 as claimed: a report is submitted only once the agent has started and a
\* task has completed, so that it is derived from that task's Result.
C5_ReportDerivedFromTask ==
    \A i \in DOMAIN calls : calls[i].started /\ calls[i].tasksDone > 0

\* C5 as amended: a script submits at most one report, the sample report built
\* from literals (assignment-1, SUCCESS), and submits it before the agent is
\* started and before any task has been executed.
C5_SampleReportBeforeStart ==
    /\ Len(calls) <= 1
    /\ \A i \in DOMAIN calls :
          /\ ~calls[i].started
          /\ calls[i].tasksDone = 0
          /\ calls[i].report.assignment_id = "assignment-1"
          /\ calls[i].report.status = "SUCCESS"

\* C5's case: the report was submitted, and the agent then started and
\* executed a task.
C5_Witness ==
    /\ Len(calls) = 1
    /\ calls[1].outcome = "returns"
    /\ agent = "running"
    /\ tasksDone > 0

\* C6: with a complete configuration (the private key is there, so that no
\* configuration fault ends the run), a transport failure of the report
\* submission does not end main() and does not keep the agent from being
\* started.
C6_TransportFailureNotFatal ==
    ( /\ Truthy(PrivateKey(script, env))
      /\ \E i \in DOMAIN calls : calls[i].outcome = "raises" )
        => /\ exitCause # TransportError
           /\ pc = "exit" => agent \in {"running", "stopped"}

\* C8: when Ctrl+C arrived while main() was waiting, main() does not end
\* before agent.stop() was called and the agent stopped.
C8_SigintInvokesStop ==
    (pc = "exit" /\ sigint) => (stopCalls > 0 /\ agent = "stopped")


C15_BidsOnConfiguredType ==
    (lastBid # NoEvaluation /\ lastBid.intent.type = ConfiguredIntentType(script))
        => lastBid.should_bid

\* C16: on a "corporate-analysis" intent SimpleBiddingStrategy answers
\* should_bid with true and calculate_bid with a Bid of price 100.
C16_SimpleStrategyBids100 ==
    (/\ script \in SimpleBiddingStrategyScripts
     /\ lastBid # NoEvaluation
     /\ lastBid.intent.type = "corporate-analysis")
        => (lastBid.should_bid /\ lastBid.bid.price = 100)

\* C17: every call of the validator client's batch submission operation is
\* given an ExecutionReportBatchRequest, never a bare ExecutionReport.
C17_BatchGivenBatchRequest ==
    Truthy(PrivateKey(script, env)) =>
        \A i \in DOMAIN calls :
            calls[i].operation = "submit_execution_report_batch"
                => calls[i].argument = "ExecutionReportBatchRequest"

\* Two reports are reports for the same (assignment_id, intent_id).
SameLogicalReport(r1, r2) ==
    r1.assignment_id = r2.assignment_id /\ r1.intent_id = r2.intent_id

\* C18 as claimed: whenever the script submits a report for the same
\* (assignment_id, intent_id) more than once, in this run or in earlier runs,
\* the reports are identical in every field, timestamp included.
C18_ResubmittedReportsIdentical ==
    Truthy(PrivateKey(script, env)) =>
        \A i \in DOMAIN calls : \A e \in earlier :
            SameLogicalReport(e.report, SubmittedReport(calls[i]))
                => e.report = SubmittedReport(calls[i])

\* C18 as amended: a run builds the report once and submits it with one
\* call; the reports of different runs for the same (assignment_id,
\* intent_id) agree in agent_id and status, and their timestamps are equal
\* exactly when the runs built them within the same second.
C18_ResubmittedReportsAgreeUpToTimestamp ==
    /\ Len(calls) <= 1
    /\ \A i \in DOMAIN calls : \A e \in earlier :
          SameLogicalReport(e.report, SubmittedReport(calls[i])) =>
              /\ e.report.agent_id = calls[i].report.agent_id
              /\ e.report.status = calls[i].report.status
              /\ (e.report.timestamp = calls[i].timestamp
                    <=> e.builtAt \div TicksPerSecond = clock \div TicksPerSecond)

C18_Witness ==
    /\ run = 2
    /\ Len(calls) = 1
    /\ \E e \in earlier :
          /\ SameLogicalReport(e.report, SubmittedReport(calls[1]))
          /\ e.report.timestamp # calls[1].timestamp

\* C19: in every script start() is called at most once per run, and only
\* after the configuration was built and a handler and a bidding strategy
\* were registered; nothing is registered after start(); stop() is not
\* called before start() has returned.
C19_StartOnceAfterSetup ==
    /\ startCalls <= 1
    /\ startCalls > 0 =>
          /\ config = "built"
          /\ {"register_handler", "register_bidding_strategy"} \subseteq registeredAtStart
          /\ registered = registeredAtStart
    /\ stopCalls > 0 => (startCalls = 1 /\ agent = "stopped")

C19_Witness ==
    /\ script = "reg_scripts/agent2_reg.py"
    /\ agent = "running"
    /\ startCalls = 1
    /\ registeredAtStart = {"register_handler", "register_bidding_strategy"}
    /\ tasksDone > 0

\* C20: in every script that submits a report the validator client is closed
\* exactly once after the submission attempt, whether the submission
\* returned or raised, and before agent.start(); the client is not used
\* after it was closed.
C20_ClientClosedOnceBeforeStart ==
    /\ closeCalls <= 1
    /\ \A i \in DOMAIN calls : calls[i].client = "open"
    /\ (Len(calls) > 0 /\ pc # "close") => (closeCalls = 1 /\ client = "closed")
    /\ closeCalls = 1 => Len(calls) = 1
    /\ (script \in AgentScripts /\ startCalls > 0) => closeCalls = 1

C20_Witness ==
    /\ script = "agent7/agent7_reg.py"
    /\ Len(calls) = 1
    /\ calls[1].outcome = "raises"
    /\ closeCalls = 1
    /\ client = "closed"
    /\ startCalls = 0
    /\ pc = "exit"

\* C13: every handler invocation that runs past the per-task deadline is
\* cancelled at the deadline, not only after it has run to completion, and
\* ends without a Result of its own, so that the one Result of the task is
\* the deadline-exceeded one.
C13_OverrunInterruptedAtDeadline ==
    (tasksDone > 0 /\ DomainCallReached /\ lastDeadline.overrun) =>
        /\ lastDeadline.interrupted
        /\ lastExec.out = Raised(CancelledError)

\* C21: when an API key the script depends on is not set in the environment,
\* main() ends without building a configuration, constructing the SDK
\* object, registering a handler, submitting a report or starting the agent.
C21_MissingApiKeyEndsMain ==
    (/\ Truthy(PrivateKey(script, env))
     /\ \E n \in ApiKeyNames(script) : env[n] = Absent)
        => /\ config = "none"
           /\ agent = "none"
           /\ registered = {}
           /\ calls = << >>
           /\ startCalls = 0
           /\ pc \in {"main", "exit"}

\* C23: the agent_id of every submitted report is the agent id given to
\* with_agent_id.
C23_ReportCarriesConfiguredAgentId ==
    Truthy(PrivateKey(script, env)) =>
        \A i \in DOMAIN calls : calls[i].report.agent_id = ConfigAgentId(script)

\* C24: should_bid answers false for every intent whose type is not the
\* intent type the script passes to with_intent_types.
C24_NoBidOnUnservedType ==
    (lastBid # NoEvaluation /\ lastBid.intent.type # ConfiguredIntentType(script))
        => ~lastBid.should_bid

\* The scripts whose handler is StockAnalysisHandler.
StockAnalysisScripts == {"agent5/agent5_reg.py", "reg_scripts/agent5_reg.py"}

\* C25: in StockAnalysisHandler.execute, when the analysis call returns and
\* serialising its result raises, execute returns a Result with success true
\* whose data is the placeholder document; a Result with success false is
\* returned only when the analysis call itself raised.
C25_SerialisationFaultAbsorbed ==
    (tasksDone > 0 /\ script \in StockAnalysisScripts) =>
        /\ (/\ lastExec.payload # "undecodable"
            /\ lastExec.dom.kind = "return"
            /\ lastExec.ser # "ok")
              => lastExec.out = Returned(SuccessResult("placeholder"))
        /\ (lastExec.out.kind = "return" /\ ~lastExec.out.result.success)
              => lastExec.dom.kind = "raise"

C25_Witness ==
    /\ script = "agent5/agent5_reg.py"
    /\ tasksDone > 0
    /\ lastExec.dom.kind = "return"
    /\ lastExec.ser = "dumps_raises"
    /\ lastExec.out = Returned(Result("placeholder", TRUE, Unset))

\* C22: two invocations of a handler's execute never interleave: between
\* the steps of the event loop no invocation stands part-way through
\* execute, so no other task, bid decision or intent is served while one
\* runs; and every system a task read from self.system is the system this
\* same task created.
C22_ExecuteRunsUninterrupted ==
    \A t \in TaskIds :
        /\ position[t] \in {0, Len(ExecuteStatements(script))}
        /\ \A k \in DOMAIN sawSystem[t] : sawSystem[t][k] = t

C22_Witness ==
    /\ script = "agent7/agent7_reg.py"
    /\ \A t \in TaskIds : position[t] = Len(ExecuteStatements(script))
    /\ sawSystem[1] = << 1, 1 >>
    /\ sawSystem[2] = << 2, 2 >>
    /\ system = 1
    /\ lastBid # NoEvaluation
====
